---- MODULE Spec2Model ----
(***************************************************************************)
(* Session lifecycle of the dashboard's API layer (frontend/src/api.js):   *)
(* the persisted token / user / logoutReason, the activity listeners, the  *)
(* refresh throttle gate, the module timers, the requests in flight and    *)
(* the axios interceptors.  Every synchronous stretch of JavaScript        *)
(* (run-to-completion) is one action; an await splits a function into the  *)
(* part that sends the request and the part that runs when it settles.     *)
(* Time is counted in whole seconds: the clock stops at every timer        *)
(* deadline and otherwise advances by at most TickStep, so handlers run at *)
(* those instants.  The server and the network are the environment: the    *)
(* server may issue a token for a login or refresh request, and a request  *)
(* may settle with any status, in any order.                               *)
(***************************************************************************)
EXTENDS Integers, Sequences, FiniteSets, TLC

(* ----------------------------- bounds ---------------------------------- *)
MaxTime == 34
MaxIssued == 2
MaxRefreshInFlight == 2
MaxCalls == 1
MaxItems == 2
TickStep == 10
TokenLifetime == 12

StartTime == 2

(* ------------- program constants (timer delays, in seconds) ------------ *)
PollInterval == 10
Cooldown == 30
BootstrapDelay == 2

Events == {"click", "keypress", "scroll", "mousemove", "touchstart"}
NoTime == 0 - 1

(* ------------------------------ tokens --------------------------------- *)
\* The string held under "token": absent, a string that does not decode,
\* or a JWT whose payload may carry an exp claim.  seq orders the tokens
\* the server has issued (0: present before the page was loaded).
NoToken == [kind |-> "none", seq |-> 0, hasExp |-> FALSE, exp |-> 0]
BadToken == [kind |-> "undecodable", seq |-> 0, hasExp |-> FALSE, exp |-> 0]
Jwt(s, e) == [kind |-> "jwt", seq |-> s, hasExp |-> TRUE, exp |-> e]
JwtNoExp == [kind |-> "jwt", seq |-> 0, hasExp |-> FALSE, exp |-> 0]

NoUser == "none"
Profile == "profile"
NoReason == "none"
SessionExpired == "session_expired"

InitTokens ==
  {NoToken, BadToken, JwtNoExp, Jwt(0, StartTime - 1), Jwt(0, StartTime + 3)}

\* if (token) / if (!token)
HasToken(t) == t.kind # "none"
\* JSON.parse(atob(token.split(".")[1])) does not throw
Decodable(t) == t.kind = "jwt"
\* payload.exp && payload.exp < currentTime
CheckExpiredMut(t, time) == t.hasExp /\ t.exp # 0 /\ t.exp > time
CheckExpired(t, time) == t.hasExp /\ t.exp # 0 /\ t.exp < time
\* remainingTime = payload.exp - currentTime; remainingTime <= 0
\* (a missing exp gives NaN, and NaN <= 0 is false)
RefreshExpired(t, time) == t.hasExp /\ t.exp - time <= 0

(* ------------------------- error values -------------------------------- *)
\* JavaScript values as they occur in an axios error: undefined, strings
\* (sequences of text atoms, <<>> being ""), arrays and objects
Undef == [t |-> "undef"]
Str(s) == [t |-> "str", s |-> s]
Arr(items) == [t |-> "arr", items |-> items]
Obj(msg, message, detail) ==
  [t |-> "obj", msg |-> msg, message |-> message, detail |-> detail]

Truthy(v) ==
  CASE v.t = "undef" -> FALSE
    [] v.t = "str" -> v.s # <<>>
    [] OTHER -> TRUE

\* a || b
Or(a, b) == IF Truthy(a) THEN a ELSE b

\* property access v.f (undefined on a string or an array)
Field(v, f) ==
  IF v.t # "obj" THEN Undef
  ELSE CASE f = "msg" -> v.msg
         [] f = "message" -> v.message
         [] OTHER -> v.detail

RECURSIVE Join(_, _)
\* Array.prototype.join on an array of strings
Join(strs, sep) ==
  IF strs = <<>> THEN <<>>
  ELSE IF Len(strs) = 1 THEN strs[1].s
  ELSE strs[1].s \o sep \o Join(Tail(strs), sep)

\* String(v) for the values an error body holds
JsString(v) ==
  CASE v.t = "undef" -> Str(<<"undefined">>)
    [] v.t = "str" -> v
    [] v.t = "obj" -> Str(<<"[object Object]">>)
    [] OTHER ->
         Str(Join([i \in 1..Len(v.items) |->
                     IF v.items[i].t = "obj" THEN Str(<<"[object Object]">>)
                     ELSE v.items[i]], <<",">>))

\* JSON.stringify of an object: some non-empty text
JsonStringify(v) == Str(<<"{json}">>)

ValidationError == Str(<<"Validation error">>)

\* the callback of the 422 branch
MapValidation(err) ==
  IF Truthy(Field(err, "msg")) THEN Field(err, "msg")
  ELSE Or(Or(Field(err, "message"), Field(err, "detail")), ValidationError)

\* the callback of the two array fallbacks
MapFallback(err) ==
  IF err.t = "str" THEN err
  ELSE Or(Or(Or(Field(err, "msg"), Field(err, "message")),
             Field(err, "detail")), ValidationError)

ExtractErrorMessage(error, defaultMessage) ==
  LET errorData == error.data
      detail == Field(errorData, "detail")
      message == Field(errorData, "message")
  IN
  IF error.hasResponse /\ Truthy(errorData) THEN
    IF error.status = 422 /\ Truthy(detail) /\ detail.t = "arr"
      THEN Str(Join([i \in 1..Len(detail.items) |->
                       MapValidation(detail.items[i])], <<", ">>))
    ELSE IF Truthy(detail) /\ detail.t = "str" THEN detail
    ELSE IF Truthy(message) /\ message.t = "str" THEN message
    ELSE IF errorData.t = "arr"
      THEN Str(Join([i \in 1..Len(errorData.items) |->
                       MapFallback(errorData.items[i])], <<", ">>))
    ELSE IF Truthy(detail) /\ detail.t = "arr"
      THEN Str(Join([i \in 1..Len(detail.items) |->
                       MapFallback(detail.items[i])], <<", ">>))
    ELSE IF errorData.t = "obj" THEN JsonStringify(errorData)
    ELSE JsString(errorData)
  ELSE Or(error.message, defaultMessage)

\* new Error(x): the message is String(x), "" when x is undefined
NewError(x) ==
  [kind |-> "rejected",
   message |-> IF x.t = "undef" THEN Str(<<>>) ELSE JsString(x)]

\* the operation returned a value to its caller
Resolved(v) == [kind |-> "resolved", value |-> v]

(* ----------------------------- state ----------------------------------- *)
\* no API operation under consideration
NoCall == [op |-> "none"]

VARIABLES
  now,                  \* Math.floor(Date.now() / 1000)
  token, user, logoutReason,      \* localStorage
  eventListenersAdded,  \* the module flag
  subscribed,           \* event types the shared handler is subscribed to
  refreshThrottle,      \* the throttle gate
  pollAt,               \* next firing of setInterval(checkTokenExpiry)
  bootAt,               \* firing time of the 2 s bootstrap timer, or NoTime
  cooldowns,            \* firing times of the pending 30 s cooldown timers
  reqs,                 \* requests in flight
  issued,               \* number of tokens the server has issued
  calls,                \* number of API operations the UI has called
  sent,                 \* Authorization carried by the requests the last handler sent
  navPending,           \* a navigation was requested, page not yet replaced
  effects,              \* what the last handler did, in order
  navs,                 \* storage as it was at each navigation of the last handler
  resp,                 \* the response the last handler consumed
  doneAt,               \* completion time of the last refresh attempt
  terminated,           \* a termination happened and no login succeeded since
  apiCall               \* an API operation whose request failed, and how it settled

vars == <<now, token, user, logoutReason, eventListenersAdded, subscribed,
          refreshThrottle, pollAt, bootAt, cooldowns, reqs, issued, calls,
          sent, navPending, effects, navs, resp, doneAt, terminated,
          apiCall>>

NoResp == [kind |-> "none", status |-> 0, via |-> "none"]

\* The mutable program state a handler works on.
Cur ==
  [token |-> token, user |-> user, reason |-> logoutReason,
   added |-> eventListenersAdded, subs |-> subscribed,
   throttle |-> refreshThrottle, reqs |-> reqs, cooldowns |-> cooldowns,
   eff |-> <<>>, navs |-> <<>>, sent |-> <<>>]

Log(m, e) == [m EXCEPT !.eff = Append(@, e)]

Commit(m) ==
  /\ token' = m.token
  /\ user' = m.user
  /\ logoutReason' = m.reason
  /\ eventListenersAdded' = m.added
  /\ subscribed' = m.subs
  /\ refreshThrottle' = m.throttle
  /\ reqs' = m.reqs
  /\ cooldowns' = m.cooldowns
  /\ effects' = m.eff
  /\ navs' = m.navs
  /\ sent' = m.sent
  /\ navPending' = (navPending \/ m.navs # <<>>)

\* window.location.reload() / window.location.href = "/login"
Navigate(m, how) ==
  [m EXCEPT !.eff = Append(@, how),
            !.navs = Append(@, [how |-> how, token |-> m.token, user |-> m.user,
                                reason |-> m.reason, added |-> m.added])]

(* --------------------------- listeners --------------------------------- *)
AddSessionRefreshListenersNoFlag(m) ==
  IF m.added THEN Log(m, "addListeners")
  ELSE [Log(m, "addListeners") EXCEPT !.subs = @ \cup Events]

AddSessionRefreshListeners(m) ==
  IF m.added THEN Log(m, "addListeners")
  ELSE [Log(m, "addListeners") EXCEPT !.subs = @ \cup Events, !.added = TRUE]

RemoveSessionRefreshListenersFlip(m) ==
  [Log(m, "removeListeners") EXCEPT !.subs = IF m.added THEN @ \ Events
                                              ELSE @ \cup Events,
                                    !.added = ~@]

RemoveSessionRefreshListenersPartial(m) ==
  IF ~m.added THEN Log(m, "removeListeners")
  ELSE [Log(m, "removeListeners") EXCEPT !.subs = @ \ (Events \ {"touchstart"}),
                                         !.added = FALSE]

RemoveSessionRefreshListeners(m) ==
  IF ~m.added THEN Log(m, "removeListeners")
  ELSE [Log(m, "removeListeners") EXCEPT !.subs = @ \ Events, !.added = FALSE]

RemoveItem(m, key) ==
  CASE key = "token" -> [Log(m, "rmToken") EXCEPT !.token = NoToken]
    [] key = "user" -> [Log(m, "rmUser") EXCEPT !.user = NoUser]
    [] OTHER -> [Log(m, "rmReason") EXCEPT !.reason = NoReason]

SetReason(m) == [Log(m, "setReason") EXCEPT !.reason = SessionExpired]

ClearStorageKeepReason(m) ==
  [Log(m, "clear") EXCEPT !.token = NoToken, !.user = NoUser]

\* localStorage.clear()
ClearStorage(m) ==
  [Log(m, "clear") EXCEPT !.token = NoToken, !.user = NoUser, !.reason = NoReason]

(* ------------------------- checkTokenExpiry ---------------------------- *)
ExpiredBranchNavFirst(m) ==
  SetReason(RemoveItem(RemoveItem(RemoveSessionRefreshListeners(
                                    Navigate(m, "href")), "token"), "user"))

ExpiredBranch(m) ==
  Navigate(SetReason(RemoveItem(RemoveItem(RemoveSessionRefreshListeners(m),
                                           "token"), "user")), "href")

UndecodableBranchWithReason(m) ==
  Navigate(SetReason(RemoveItem(RemoveItem(m, "token"), "user")), "href")

\* the catch branch of checkTokenExpiry
UndecodableBranch(m) ==
  Navigate(RemoveItem(RemoveItem(m, "token"), "user"), "href")

CheckTokenExpiryNoTokenNavigates(m, time) ==
  IF ~HasToken(m.token) THEN Navigate(Log(m, "check.noToken"), "href")
  ELSE IF ~Decodable(m.token) THEN UndecodableBranch(Log(m, "check.undecodable"))
  ELSE IF CheckExpired(m.token, time) THEN ExpiredBranch(Log(m, "check.expired"))
  ELSE Log(m, "check.valid")

CheckTokenExpiry(m, time) ==
  IF ~HasToken(m.token) THEN Log(m, "check.noToken")
  ELSE IF ~Decodable(m.token) THEN UndecodableBranch(Log(m, "check.undecodable"))
  ELSE IF CheckExpired(m.token, time) THEN ExpiredBranch(Log(m, "check.expired"))
  ELSE Log(m, "check.valid")

(* ---------------------- request / response plumbing -------------------- *)
\* requests of one kind that are in flight together are told apart by id
FreeId(rs, kind) ==
  CHOOSE i \in 0..Cardinality(rs) : \A r \in rs : r.kind = kind => r.id # i

SendUnauthenticated(m, kind, via, time) ==
  [m EXCEPT !.reqs = @ \cup {[id |-> FreeId(m.reqs, kind), kind |-> kind, via |-> via,
                              phase |-> "sent", tok |-> NoToken]},
            !.sent = Append(@, NoToken),
            !.eff = Append(@, "post")]

\* api.post / api.get: the request interceptor attaches the stored token
Send(m, kind, via, time) ==
  [m EXCEPT !.reqs = @ \cup {[id |-> FreeId(m.reqs, kind), kind |-> kind, via |-> via,
                              phase |-> "sent", tok |-> NoToken]},
            !.sent = Append(@, m.token),
            !.eff = Append(@, "post")]

ForcedLogoutReloadFirst(m) ==
  SetReason(RemoveItem(RemoveItem(RemoveSessionRefreshListeners(
                                    Navigate(m, "reload")), "token"), "user"))

\* the response interceptor's error handler: the 401/403 branch
ForcedLogout(m) ==
  Navigate(SetReason(RemoveItem(RemoveItem(RemoveSessionRefreshListeners(m),
                                           "token"), "user")), "reload")

OnRejectedAnyStatus(m, kind, status) ==
  IF kind = "refresh" THEN m ELSE ForcedLogout(Log(m, "forced"))

OnRejectedNoExemption(m, kind, status) ==
  IF status = 401 \/ status = 403 THEN ForcedLogout(Log(m, "forced")) ELSE m

\* the response interceptor's error handler
OnRejected(m, kind, status) ==
  IF kind = "refresh" THEN m
  ELSE IF status = 401 \/ status = 403 THEN ForcedLogout(Log(m, "forced"))
  ELSE m

(* ---------------------- refreshSessionOnActivity ----------------------- *)
RefreshSessionOnActivityGateStuck(m, time) ==
  IF m.throttle THEN Log(m, "refresh.dropped")
  ELSE LET g == [m EXCEPT !.throttle = TRUE] IN
    IF ~HasToken(g.token)
      THEN [RemoveSessionRefreshListeners(Log(g, "refresh.noToken"))
              EXCEPT !.throttle = FALSE]
    ELSE IF ~Decodable(g.token) THEN Log(g, "refresh.undecodable")
    ELSE IF RefreshExpired(g.token, time) THEN Log(g, "refresh.expired")
    ELSE Send(Log(g, "refresh.start"), "refresh", "api", time)

RefreshSessionOnActivityKeepListeners(m, time) ==
  IF m.throttle THEN Log(m, "refresh.dropped")
  ELSE LET g == [m EXCEPT !.throttle = TRUE] IN
    IF ~HasToken(g.token)
      THEN [Log(g, "refresh.noToken") EXCEPT !.throttle = FALSE]
    ELSE IF ~Decodable(g.token)
      THEN [Log(g, "refresh.undecodable") EXCEPT !.throttle = FALSE]
    ELSE IF RefreshExpired(g.token, time)
      THEN [Log(g, "refresh.expired") EXCEPT !.throttle = FALSE]
    ELSE Send(Log(g, "refresh.start"), "refresh", "api", time)

RefreshSessionOnActivityRestartCooldown(m, time) ==
  IF m.throttle
    THEN [Log(m, "refresh.dropped") EXCEPT
            !.cooldowns = IF @ = {} THEN @ ELSE {time + Cooldown}]
  ELSE LET g == [m EXCEPT !.throttle = TRUE] IN
    IF ~HasToken(g.token)
      THEN [RemoveSessionRefreshListeners(Log(g, "refresh.noToken"))
              EXCEPT !.throttle = FALSE]
    ELSE IF ~Decodable(g.token)
      THEN [Log(g, "refresh.undecodable") EXCEPT !.throttle = FALSE]
    ELSE IF RefreshExpired(g.token, time)
      THEN [Log(g, "refresh.expired") EXCEPT !.throttle = FALSE]
    ELSE Send(Log(g, "refresh.start"), "refresh", "api", time)

RefreshSessionOnActivityNoGate(m, time) ==
  IF ~HasToken(m.token)
    THEN RemoveSessionRefreshListeners(Log(m, "refresh.noToken"))
  ELSE IF ~Decodable(m.token) THEN Log(m, "refresh.undecodable")
  ELSE IF RefreshExpired(m.token, time) THEN Log(m, "refresh.expired")
  ELSE Send(Log(m, "refresh.start"), "refresh", "api", time)

\* the synchronous part, up to the await
RefreshSessionOnActivity(m, time) ==
  IF m.throttle THEN Log(m, "refresh.dropped")
  ELSE LET g == [m EXCEPT !.throttle = TRUE] IN
    IF ~HasToken(g.token)
      THEN [RemoveSessionRefreshListeners(Log(g, "refresh.noToken"))
              EXCEPT !.throttle = FALSE]
    ELSE IF ~Decodable(g.token)
      THEN [Log(g, "refresh.undecodable") EXCEPT !.throttle = FALSE]
    ELSE IF RefreshExpired(g.token, time)
      THEN [Log(g, "refresh.expired") EXCEPT !.throttle = FALSE]
    ELSE Send(Log(g, "refresh.start"), "refresh", "api", time)

RefreshResumeReopenOnFailure(m, r, status, success, time) ==
  IF status = 200
    THEN LET w == IF success THEN [Log(m, "setToken") EXCEPT !.token = r.tok]
                  ELSE m
         IN [Log(w, "setTimeout") EXCEPT !.cooldowns = @ \cup {time + Cooldown}]
    ELSE [Log(m, "reopen") EXCEPT !.throttle = FALSE]

RefreshResumeTimerOnSuccessOnly(m, r, status, success, time) ==
  IF status = 200 /\ success
    THEN [Log(Log(m, "setToken"), "setTimeout")
            EXCEPT !.token = r.tok, !.cooldowns = @ \cup {time + Cooldown}]
    ELSE m

RefreshResumeNoCooldown(m, r, status, success, time) ==
  LET w == IF status = 200 /\ success
             THEN [Log(m, "setToken") EXCEPT !.token = r.tok]
             ELSE m
  IN [Log(w, "reopen") EXCEPT !.throttle = FALSE]

\* the part after the await: the response is in, the cooldown starts
RefreshResume(m, r, status, success, time) ==
  LET w == IF status = 200 /\ success
             THEN [Log(m, "setToken") EXCEPT !.token = r.tok]
             ELSE m
  IN [Log(w, "setTimeout") EXCEPT !.cooldowns = @ \cup {time + Cooldown}]

(* ------------------------------ login ---------------------------------- *)
LoginResume(m, r, status) ==
  IF status = 200
    THEN AddSessionRefreshListeners(
           [Log(m, "setToken") EXCEPT !.token = r.tok, !.user = Profile])
    ELSE Log(m, "throw")

(* --------------------------- getCurrentUser ---------------------------- *)
\* the part after the await: the catch block throws to the caller
GetCurrentUserResume(m, status) ==
  IF status = 200 THEN m ELSE Log(m, "throw")

(* ------------------------------ logout --------------------------------- *)
LogoutFinallyStorageOnly(m) == ClearStorage(m)

\* the finally block of logout()
LogoutFinally(m) == ClearStorage(RemoveSessionRefreshListeners(m))

\* Dashboard.handleLogout navigates once logout() has settled
LogoutResume(m, r) ==
  IF r.via = "Dashboard" THEN Navigate(LogoutFinally(m), "href")
  ELSE LogoutFinally(m)

(* ------------------------------- Init ---------------------------------- *)
Init ==
  /\ now = StartTime
  /\ token \in InitTokens
  /\ user = (IF HasToken(token) THEN Profile ELSE NoUser)
  /\ logoutReason \in {NoReason, SessionExpired}
  /\ eventListenersAdded = FALSE
  /\ subscribed = {}
  /\ refreshThrottle = FALSE
  /\ pollAt = StartTime + PollInterval
  /\ bootAt = StartTime + BootstrapDelay
  /\ cooldowns = {}
  /\ reqs = {}
  /\ issued = 0
  /\ calls = 0
  /\ sent = <<>>
  /\ navPending = FALSE
  /\ effects = <<>>
  /\ navs = <<>>
  /\ resp = NoResp
  /\ doneAt = NoTime
  /\ terminated = FALSE
  /\ apiCall = NoCall

(* ------------------------------ actions -------------------------------- *)
Terminates(m) ==
  \E i \in 1..Len(m.eff) : m.eff[i] \in {"check.expired", "forced", "clear"}

\* a handler that consumes no response and touches neither clock nor server
Run(m) ==
  /\ Commit(m)
  /\ resp' = NoResp
  /\ terminated' = (terminated \/ Terminates(m))
  /\ UNCHANGED <<now, issued, doneAt, apiCall>>

Min(S) == CHOOSE x \in S : \A y \in S : x <= y

\* the firing times of the timers that are pending
Deadlines == {pollAt} \cup cooldowns \cup (IF bootAt = NoTime THEN {} ELSE {bootAt})

\* time passes; a timer that is due fires, and a requested navigation
\* replaces the page, before the clock moves on
Tick ==
  /\ now < MaxTime
  /\ ~navPending
  /\ now < pollAt
  /\ bootAt = NoTime \/ now < bootAt
  /\ \A d \in cooldowns : now < d
  /\ now' = Min(Deadlines \cup {now + TickStep, MaxTime})
  /\ effects' = <<"tick">>
  /\ navs' = <<>>
  /\ sent' = <<>>
  /\ resp' = NoResp
  /\ UNCHANGED <<apiCall, token, user, logoutReason, eventListenersAdded, subscribed,
                 refreshThrottle, pollAt, bootAt, cooldowns, reqs, issued,
                 calls, navPending, doneAt, terminated>>

\* setInterval(checkTokenExpiry, 10000)
PollTick ==
  /\ now = pollAt
  /\ pollAt' = pollAt + PollInterval
  /\ Run(CheckTokenExpiry(Log(Cur, "pollTick"), now))
  /\ UNCHANGED <<bootAt, calls>>

\* setTimeout(() => { if (token) addSessionRefreshListeners() }, 2000)
BootTimer ==
  /\ bootAt # NoTime
  /\ now = bootAt
  /\ bootAt' = NoTime
  /\ Run(IF HasToken(token) THEN AddSessionRefreshListeners(Log(Cur, "boot"))
         ELSE Log(Cur, "boot"))
  /\ UNCHANGED <<pollAt, calls>>

\* setTimeout(() => { refreshThrottle = false }, 30000)
CooldownTimer ==
  /\ \E d \in cooldowns :
       /\ now = d
       /\ Run([Log(Cur, "cooldownTimer") EXCEPT !.cooldowns = @ \ {d},
                                                !.throttle = FALSE])
  /\ UNCHANGED <<pollAt, bootAt, calls>>

InFlight(kind) == {r \in reqs : r.kind = kind}

\* a user event on the document, delivered to the subscribed handler
Activity ==
  /\ \E e \in Events : e \in subscribed
  /\ Cardinality(InFlight("refresh")) < MaxRefreshInFlight
  /\ Run(RefreshSessionOnActivity(Log(Cur, "activity"), now))
  /\ UNCHANGED <<pollAt, bootAt, calls>>

\* document "visibilitychange" with document.hidden false (the handler
\* does nothing when the page becomes hidden)
VisibilityChange ==
  /\ Cardinality(InFlight("refresh")) < MaxRefreshInFlight
  /\ LET c == CheckTokenExpiry(Log(Cur, "visible"), now) IN
       Run(IF c.added THEN RefreshSessionOnActivity(c, now) ELSE c)
  /\ UNCHANGED <<pollAt, bootAt, calls>>

\* login(email, password) is called
CallLogin ==
  /\ calls < MaxCalls
  /\ calls' = calls + 1
  /\ Run(Send(Log(Cur, "login"), "login", "Login", now))
  /\ UNCHANGED <<pollAt, bootAt>>

\* logout() is called, directly or by Dashboard.handleLogout
CallLogout ==
  /\ calls < MaxCalls
  /\ calls' = calls + 1
  /\ \E via \in {"api", "Dashboard"} :
       Run(Send(Log(Cur, "logout"), "logout", via, now))
  /\ UNCHANGED <<pollAt, bootAt>>

\* any other authenticated call whose catch block throws to its caller
\* (getCurrentUser, getMyOrganization, ...)
CallOther ==
  /\ calls < MaxCalls
  /\ calls' = calls + 1
  /\ Run(Send(Log(Cur, "other"), "other", "api", now))
  /\ UNCHANGED <<pollAt, bootAt>>

\* the server accepts a login or a refresh and issues a token
ServerIssue ==
  /\ issued < MaxIssued
  /\ \E r \in reqs :
       /\ r.kind \in {"login", "refresh"}
       /\ r.phase = "sent"
       /\ reqs' = (reqs \ {r}) \cup
                  {[r EXCEPT !.phase = "answered",
                             !.tok = Jwt(issued + 1, now + TokenLifetime)]}
  /\ issued' = issued + 1
  /\ effects' = <<"serverIssue">>
  /\ navs' = <<>>
  /\ sent' = <<>>
  /\ resp' = NoResp
  /\ UNCHANGED <<apiCall, now, token, user, logoutReason, eventListenersAdded,
                 subscribed, refreshThrottle, pollAt, bootAt, cooldowns,
                 calls, navPending, doneAt, terminated>>

FailStatuses == {0, 401, 403, 500}

\* the statuses a request in flight can settle with (0: no response)
Outcomes(r) ==
  FailStatuses \cup
  (IF r.kind \in {"logout", "other"} \/ r.phase = "answered" THEN {200} ELSE {})

Body(m, r, status, success) ==
  LET e == IF status = 200 THEN m ELSE OnRejected(m, r.kind, status) IN
  CASE r.kind = "login" -> LoginResume(e, r, status)
    [] r.kind = "logout" -> LogoutResume(e, r)
    [] r.kind = "refresh" -> RefreshResume(e, r, status, success, now)
    [] OTHER -> GetCurrentUserResume(e, status)

\* a request settles and the code after its await runs
Deliver ==
  /\ \E r \in reqs : \E status \in Outcomes(r) : \E success \in BOOLEAN :
       /\ success \/ (r.kind = "refresh" /\ status = 200)
       /\ LET m == Body([Log(Cur, "deliver") EXCEPT !.reqs = @ \ {r}],
                        r, status, success) IN
          /\ Commit(m)
          /\ resp' = [kind |-> r.kind, status |-> status, via |-> r.via]
          /\ doneAt' = (IF r.kind = "refresh" THEN now ELSE doneAt)
          /\ terminated' =
               (IF r.kind = "login" /\ status = 200 THEN FALSE
                ELSE terminated \/ Terminates(m))
  /\ UNCHANGED <<now, issued, pollAt, bootAt, calls, apiCall>>

\* the requested navigation takes place: the page is replaced and the
\* module is evaluated again; storage is all that survives
PageLoad ==
  /\ navPending
  /\ navPending' = FALSE
  /\ eventListenersAdded' = FALSE
  /\ subscribed' = {}
  /\ refreshThrottle' = FALSE
  /\ pollAt' = now + PollInterval
  /\ bootAt' = now + BootstrapDelay
  /\ cooldowns' = {}
  /\ reqs' = {}
  /\ sent' = <<>>
  /\ effects' = <<"pageLoad">>
  /\ navs' = <<>>
  /\ resp' = NoResp
  /\ doneAt' = NoTime
  /\ UNCHANGED <<now, token, user, logoutReason, issued, calls, terminated,
                 apiCall>>

Next ==
  \/ Tick
  \/ PollTick
  \/ BootTimer
  \/ CooldownTimer
  \/ Activity
  \/ VisibilityChange
  \/ CallLogout
  \/ CallLogin
  \/ CallOther
  \/ ServerIssue
  \/ Deliver
  \/ PageLoad

Spec == Init /\ [][Next]_vars

\* The same program under the scheduling the browser provides: timers
\* that are due fire, time passes, a requested navigation takes place and
\* a request in flight settles (the HTTP client times out after 30 s).
LiveSpec ==
  /\ Init
  /\ [][Next]_vars
  /\ WF_vars(Tick)
  /\ WF_vars(PollTick)
  /\ WF_vars(BootTimer)
  /\ WF_vars(CooldownTimer)
  /\ WF_vars(Deliver)
  /\ WF_vars(PageLoad)

(* ======================================================================= *)
(* The catch blocks of the API operations, applied to failed requests      *)
(* ======================================================================= *)
FieldValues == {Undef, Str(<<"E1">>)}

\* elements of an error array: strings and field-error objects
Items ==
  {Str(<<"E1">>), Str(<<>>)}
    \cup {Obj(m, g, d) : m \in FieldValues, g \in FieldValues, d \in FieldValues}
    \cup {Obj(Str(<<>>), Str(<<"E2">>), Undef)}

Arrays == {Arr(a) : a \in UNION {[1..n -> Items] : n \in 0..MaxItems}}

\* response bodies: none, a string, a bare array, an object with detail
\* and message
Bodies ==
  {Undef, Str(<<>>), Str(<<"E1">>)}
    \cup Arrays
    \cup {Obj(Undef, g, d) :
            g \in {Undef, Str(<<"E2">>)},
            d \in {Undef, Str(<<>>), Str(<<"E1">>), Obj(Undef, Undef, Undef)}
                    \cup Arrays}

ErrorMessages == {Undef, Str(<<"Network Error">>)}

\* what axios rejects with: no response at all, or a response with a body
Errors ==
  {[hasResponse |-> FALSE, status |-> 0, data |-> Undef, message |-> m] :
     m \in ErrorMessages}
    \cup {[hasResponse |-> TRUE, status |-> st, data |-> d, message |-> m] :
            st \in {422, 500}, d \in Bodies, m \in ErrorMessages}

Ops == {"login", "getCurrentUser", "setPassword", "changePassword",
        "getChatSessions", "getSessionMessages"}

Pending == [kind |-> "pending"]

\* error.response?.data?.detail
DetailOf(error) ==
  IF error.hasResponse THEN Field(error.data, "detail") ELSE Undef

sessionVars ==
  <<now, token, user, logoutReason, eventListenersAdded, subscribed,
    refreshThrottle, pollAt, bootAt, cooldowns, reqs, issued, calls, sent,
    navPending, effects, navs, resp, doneAt, terminated>>

\* a page without a session, and one operation whose request has failed
InitErr ==
  /\ now = StartTime
  /\ token = NoToken
  /\ user = NoUser
  /\ logoutReason = NoReason
  /\ eventListenersAdded = FALSE
  /\ subscribed = {}
  /\ refreshThrottle = FALSE
  /\ pollAt = StartTime + PollInterval
  /\ bootAt = StartTime + BootstrapDelay
  /\ cooldowns = {}
  /\ reqs = {}
  /\ issued = 0
  /\ calls = 0
  /\ sent = <<>>
  /\ navPending = FALSE
  /\ effects = <<>>
  /\ navs = <<>>
  /\ resp = NoResp
  /\ doneAt = NoTime
  /\ terminated = FALSE
  /\ apiCall \in {[op |-> op, error |-> e, outcome |-> Pending] :
                    op \in Ops, e \in Errors}

\* the operation has a failed request whose catch block has not run yet
Failed(op) == apiCall.op = op /\ apiCall.outcome = Pending

\* the catch block settles the caller's promise
Settle(outcome) == [apiCall EXCEPT !.outcome = outcome]

LoginCatch ==
  /\ Failed("login")
  /\ apiCall' = Settle(NewError(Or(DetailOf(apiCall.error),
                                   Str(<<"Login failed">>))))
  /\ UNCHANGED sessionVars

GetCurrentUserCatch ==
  /\ Failed("getCurrentUser")
  /\ apiCall' = Settle(NewError(Str(<<"Failed to get user info">>)))
  /\ UNCHANGED sessionVars

SetPasswordCatch ==
  /\ Failed("setPassword")
  /\ apiCall' = Settle(NewError(ExtractErrorMessage(
                                  apiCall.error,
                                  Str(<<"Failed to set password">>))))
  /\ UNCHANGED sessionVars

ChangePasswordCatch ==
  /\ Failed("changePassword")
  /\ apiCall' = Settle(NewError(ExtractErrorMessage(
                                  apiCall.error,
                                  Str(<<"Failed to change password">>))))
  /\ UNCHANGED sessionVars

GetChatSessionsCatch ==
  /\ Failed("getChatSessions")
  /\ apiCall' = Settle(Resolved("[]"))
  /\ UNCHANGED sessionVars

GetSessionMessagesCatch ==
  /\ Failed("getSessionMessages")
  /\ apiCall' = Settle(Resolved("[]"))
  /\ UNCHANGED sessionVars

NextErr ==
  \/ LoginCatch
  \/ GetCurrentUserCatch
  \/ SetPasswordCatch
  \/ ChangePasswordCatch
  \/ GetChatSessionsCatch
  \/ GetSessionMessagesCatch

ErrSpec == InitErr /\ [][NextErr]_vars

(* ======================================================================= *)
(* Properties                                                              *)
(* ======================================================================= *)
Has(seq, e) == \E i \in 1..Len(seq) : seq[i] = e
Count(seq, e) == Cardinality({i \in 1..Len(seq) : seq[i] = e})

\* the last handler was a run of checkTokenExpiry (timer tick or visibility)
RanCheck == effects # <<>> /\ effects[1] \in {"pollTick", "visible"}

\* the token decodes and its expiry lies strictly before the given time
ExpiryInPast(t, time) == Decodable(t) /\ t.hasExp /\ t.exp < time

\* storage and listeners as the forced-termination and expiry paths must
\* leave them by the time they navigate
CleanedUp(snap) ==
  /\ ~HasToken(snap.token)
  /\ snap.user = NoUser
  /\ snap.reason = SessionExpired
  /\ ~snap.added

Reloads == {i \in 1..Len(navs) : navs[i].how = "reload"}

C2_OneRefreshPerCooldown ==
  [][(\E r \in reqs' \ reqs : r.kind = "refresh" /\ r.phase = "sent") =>
       /\ InFlight("refresh") = {}
       /\ doneAt = NoTime \/ now >= doneAt + Cooldown]_vars

\* C2 case: an earlier attempt completed, its cooldown ran out, and a later
\* activity signal has started the next attempt.
C2_Witness ==
  /\ doneAt # NoTime
  /\ Has(effects, "refresh.start")
  /\ InFlight("refresh") # {}

\* C3: no stale listener survives a cleared token: whenever storage holds
\* no token, eventListenersAdded is false (every path of the API layer that
\* removes the token deregisters the listeners with it).
C3_NoListenerWithoutToken == ~HasToken(token) => ~eventListenersAdded

\* the last handler consumed a 401/403 answer to a non-refresh request
AuthFailure ==
  /\ resp.kind \in {"login", "logout", "other"}
  /\ resp.status \in {401, 403}

\* C4: a 401 or 403 answer to a request that is not the refresh request
\* runs the forced termination exactly once: listeners deregistered, token
\* and user removed, logoutReason set to "session_expired", all before the
\* one page reload; and the failed request is not sent again.
C4_ForcedTerminationOnce ==
  AuthFailure =>
    /\ Count(effects, "forced") = 1
    /\ Cardinality(Reloads) = 1
    /\ \A i \in Reloads : CleanedUp(navs[i])
    /\ ~HasToken(token)
    /\ user = NoUser
    /\ ~eventListenersAdded
    /\ ~Has(effects, "post")

\* C4 case: a 403 on an ordinary authenticated call has run the forced
\* termination and asked for the reload.
C4_Witness ==
  /\ resp.kind = "other"
  /\ resp.status = 403
  /\ Has(effects, "reload")
  /\ logoutReason = SessionExpired

\* C5: a failing refresh request (any status, or no response) leaves token,
\* user, logoutReason and the listener registration as they were and
\* issues no reload or navigation; no refresh response of any kind
\* navigates.
C5_RefreshFailureIsLocalNoOp ==
  [][(resp'.kind = "refresh") =>
       /\ navs' = <<>>
       /\ (resp'.status # 200) =>
            /\ token' = token
            /\ user' = user
            /\ logoutReason' = logoutReason
            /\ eventListenersAdded' = eventListenersAdded
            /\ subscribed' = subscribed]_vars

\* C5 case: the refresh request came back 401 and the session is still in
\* place, listeners registered.
C5_Witness ==
  /\ resp.kind = "refresh"
  /\ resp.status = 401
  /\ HasToken(token)
  /\ user = Profile
  /\ eventListenersAdded
  /\ ~navPending

\* C6: a successful refresh never replaces the stored token by one the
\* server issued earlier than the token it overwrites.
C6_RefreshKeepsNewestToken ==
  [][(resp'.kind = "refresh" /\ resp'.status = 200 /\ HasToken(token)
        /\ token' # token) =>
       token'.seq >= token.seq]_vars

\* C7: when logout() settles, whatever the answer to POST /auth/logout,
\* the listeners are deregistered and token and user are absent.
C7_LogoutAlwaysCleans ==
  (resp.kind = "logout") =>
    /\ ~HasToken(token)
    /\ user = NoUser
    /\ ~eventListenersAdded
    /\ subscribed = {}
    /\ Has(effects, "clear")

\* C7 case: logout() settled after its request failed without a response.
C7_Witness ==
  /\ resp.kind = "logout"
  /\ resp.status = 0
  /\ Has(effects, "removeListeners")
  /\ ~HasToken(token)

\* C8: a failed login persists nothing: token, user, logoutReason and the
\* listener registration are as before the call and no reload is issued.
C8_FailedLoginPersistsNothing ==
  [][(resp'.kind = "login" /\ resp'.status # 200) =>
       /\ token' = token
       /\ user' = user
       /\ logoutReason' = logoutReason
       /\ eventListenersAdded' = eventListenersAdded
       /\ subscribed' = subscribed
       /\ navs' = <<>>]_vars

\* C9: once a session has been terminated (logout settled, expiry detected,
\* forced logout), storage holds no token until a login succeeds.
C9_TerminatedStaysTokenless == terminated => ~HasToken(token)

C11_UndecodableNeverRegisters ==
  (token = BadToken) => (~eventListenersAdded /\ subscribed = {})

\* C12: when checkTokenExpiry cannot decode the stored token, token and
\* user are removed and logoutReason keeps the value it had before the
\* check; when it finds an expired token, logoutReason becomes
\* "session_expired".
C12_UndecodableFailsClosed ==
  [][/\ (RanCheck' /\ token = BadToken) =>
          /\ ~HasToken(token')
          /\ user' = NoUser
          /\ logoutReason' = logoutReason
          /\ ~Has(effects', "setReason")
     /\ (RanCheck' /\ ExpiryInPast(token, now)) =>
          logoutReason' = SessionExpired]_vars

\* C12 case: checkTokenExpiry has just met an undecodable token, removed
\* token and user, and no logout reason is recorded.
C12_Witness ==
  /\ RanCheck
  /\ Has(effects, "check.undecodable")
  /\ Has(effects, "rmToken")
  /\ ~HasToken(token)
  /\ user = NoUser
  /\ logoutReason = NoReason

\* the last handler ran code of api.js that navigates: the interceptor's
\* reload, or the location change of checkTokenExpiry
ApiNavigated ==
  \/ \E i \in 1..Len(navs) : navs[i].how = "reload"
  \/ RanCheck /\ navs # <<>>

NonRefresh == {"login", "logout", "other"}

\* C13 (as stated): api.js navigates only when checkTokenExpiry finds a
\* token whose expiry is strictly in the past, or when a non-refresh
\* request is answered 401/403.
C13_NavigationOnlyOnExpiryOrAuthFailure ==
  [][ApiNavigated' =>
       \/ RanCheck' /\ ExpiryInPast(token, now)
       \/ resp'.kind \in NonRefresh /\ resp'.status \in {401, 403}]_vars

\* C13 (amended): api.js navigates only when checkTokenExpiry finds a
\* token whose expiry is strictly in the past or a token it cannot decode,
\* or when a non-refresh request is answered 401/403; network errors,
\* other statuses, refresh failures and activity without a token do not
\* navigate.
C13_NavigationOnlyOnCheckOrAuthFailure ==
  [][ApiNavigated' =>
       \/ RanCheck' /\ ExpiryInPast(token, now)
       \/ RanCheck' /\ token = BadToken
       \/ resp'.kind \in NonRefresh /\ resp'.status \in {401, 403}]_vars

\* C13 case: checkTokenExpiry met an undecodable token and changed the
\* location to /login.
C13_Witness ==
  /\ RanCheck
  /\ Has(effects, "check.undecodable")
  /\ Len(navs) = 1
  /\ navs[1].how = "href"

\* C14: every request the last handler sent carries the token that is in
\* storage (none when storage holds none); so a request sent after a
\* login or refresh replaced the token carries the new token.
C14_RequestsCarryStoredToken ==
  \A i \in 1..Len(sent) : sent[i] = token

\* C14 case: a request has just been sent with a token the server issued
\* during this run, which replaced the token the page started with.
C14_Witness ==
  /\ Len(sent) = 1
  /\ Has(effects, "post")
  /\ sent[1].kind = "jwt"
  /\ sent[1].seq > 0

\* C15: the completion of a successful login leaves the activity
\* listeners unregistered (they are registered 2 seconds later).
C15_LoginRegistersOnlyAfterDelay ==
  [][(resp'.kind = "login" /\ resp'.status = 200 /\ ~eventListenersAdded) =>
       ~eventListenersAdded']_vars

\* C16: the bootstrap timer registers the listeners only if storage holds
\* a decodable token whose expiry is in the future.
C16_BootstrapRegistersOnlyValidToken ==
  [][(effects' # <<>> /\ effects'[1] = "boot" /\ eventListenersAdded') =>
       /\ Decodable(token)
       /\ token.hasExp
       /\ token.exp > now]_vars

\* the listener part of a handler state
Listeners(m) == <<m.added, m.subs>>

\* C17: in every reachable state a call of addSessionRefreshListeners
\* gives the flag set and exactly the five event types subscribed, a
\* second call in a row gives the state of the first, and a call made
\* while registered changes nothing; every handler that called it ends
\* with the listeners registered once.
C17_AddIsIdempotent ==
  /\ LET once == AddSessionRefreshListeners(Cur) IN
       /\ Listeners(once) = <<TRUE, Events>>
       /\ Listeners(AddSessionRefreshListeners(once)) = Listeners(once)
       /\ eventListenersAdded => Listeners(once) = Listeners(Cur)
  /\ (Has(effects, "addListeners") /\ ~Has(effects, "removeListeners")) =>
       (eventListenersAdded /\ subscribed = Events)

\* C17 case: the bootstrap timer called addSessionRefreshListeners while
\* the listeners were registered already (by a login), and they still are.
C17_Witness ==
  /\ effects = <<"boot", "addListeners">>
  /\ token.seq > 0
  /\ eventListenersAdded
  /\ subscribed = Events

\* C18: in every reachable state a call of removeSessionRefreshListeners
\* made while nothing is registered changes neither the flag nor a
\* subscription, and a second call in a row gives the state of the first;
\* every handler that called it ends with nothing registered.
C18_RemoveIsIdempotent ==
  /\ LET once == RemoveSessionRefreshListeners(Cur) IN
       /\ Listeners(RemoveSessionRefreshListeners(once)) = Listeners(once)
       /\ ~eventListenersAdded => Listeners(once) = Listeners(Cur)
  /\ (Has(effects, "removeListeners") /\ ~Has(effects, "addListeners")) =>
       (~eventListenersAdded /\ subscribed = {})

\* C18 case: logout() answered 401 ran removeSessionRefreshListeners twice
\* in a row (interceptor, then the finally block) and nothing is registered.
C18_Witness ==
  /\ resp.kind = "logout"
  /\ Count(effects, "removeListeners") = 2
  /\ ~eventListenersAdded
  /\ subscribed = {}

\* the operation under consideration has settled
Settled == apiCall.op # "none" /\ apiCall.outcome # Pending

\* C19: every API operation whose request fails rejects, and the error it
\* rejects with carries a string message, whatever the shape of the error
\* body; none resolves normally.
C19_FailuresRejectWithString ==
  Settled =>
    /\ apiCall.outcome.kind = "rejected"
    /\ apiCall.outcome.message.t = "str"

\* C20: a 401/403 answer to a call to a non-refresh endpoint, made and
\* answered with a token in storage, does not reach the caller as a thrown
\* error.
C20_AuthFailureNotThrownToCaller ==
  [][(resp'.kind = "other" /\ resp'.status \in {401, 403} /\ HasToken(token)) =>
       ~Has(effects', "throw")]_vars

\* the last handler was the activity handler, invoked by a user event
RanActivity == effects # <<>> /\ effects[1] = "activity"

\* storage, listener registration and navigation are left as they were
SessionUntouched ==
  /\ token' = token
  /\ user' = user
  /\ logoutReason' = logoutReason
  /\ eventListenersAdded' = eventListenersAdded
  /\ subscribed' = subscribed
  /\ navs' = <<>>

\* less than 30 seconds have passed since a refresh attempt completed
CoolingDown == doneAt # NoTime /\ now < doneAt + Cooldown

\* C21: for 30 seconds from the completion of a refresh request, whatever
\* its outcome, the gate is closed, exactly the timer set at completion is
\* pending, and no handler run in that time issues a refresh request or
\* touches gate or timer.
C21_GateClosedDuringCooldown ==
  [][/\ CoolingDown =>
          (refreshThrottle /\ cooldowns = {doneAt + Cooldown})
     /\ (CoolingDown /\ CoolingDown') =>
          /\ InFlight("refresh")' = {}
          /\ refreshThrottle'
          /\ cooldowns' = cooldowns]_vars

\* C21 case: a user event arrived during the cooldown that follows a
\* completed refresh request, and was dropped.
C21_Witness ==
  /\ CoolingDown
  /\ RanActivity
  /\ Has(effects, "refresh.dropped")
  /\ InFlight("refresh") = {}
  /\ cooldowns # {}

\* the stored token decodes and its expiry is not after the given time
ExpiryReached(t, time) == Decodable(t) /\ t.hasExp /\ t.exp <= time

\* C22: the activity handler entered with the gate open on a token that
\* is expired or undecodable issues no request, leaves storage and
\* listeners alone, and leaves the gate open with no cooldown timer set.
C22_ExpiredOrUndecodableEarlyExit ==
  [][(RanActivity' /\ ~refreshThrottle
        /\ (token = BadToken \/ ExpiryReached(token, now))) =>
       /\ reqs' = reqs
       /\ sent' = <<>>
       /\ SessionUntouched
       /\ ~refreshThrottle'
       /\ cooldowns' = cooldowns]_vars

\* C22 case: a user event found an expired token with the gate open; the
\* handler returned and the gate is open.
C22_Witness ==
  /\ RanActivity
  /\ Has(effects, "refresh.expired")
  /\ ExpiryReached(token, now)
  /\ ~refreshThrottle
  /\ reqs = {}

\* C23: the activity handler entered with the gate open and no token in
\* storage deregisters the listeners, issues no request and leaves the
\* gate open; no event type stays subscribed, so no further user event
\* reaches the handler.
C23_NoTokenDeregisters ==
  [][(RanActivity' /\ ~refreshThrottle /\ ~HasToken(token)) =>
       /\ ~eventListenersAdded'
       /\ subscribed' = {}
       /\ reqs' = reqs
       /\ sent' = <<>>
       /\ ~refreshThrottle'
       /\ cooldowns' = cooldowns
       /\ ~HasToken(token')]_vars

\* C23 case: a user event reached the handler although storage held no
\* token; the listeners are gone.
C23_Witness ==
  /\ RanActivity
  /\ Has(effects, "refresh.noToken")
  /\ Has(effects, "removeListeners")
  /\ subscribed = {}
  /\ ~eventListenersAdded

\* C24: a timer tick of checkTokenExpiry (or a visibility change without
\* registered listeners) that finds no token, or a decodable token that is
\* not expired, changes nothing: storage, listeners, gate, cooldown
\* timers and requests are as before and nothing navigates.
C24_CheckIsNoOpWithoutExpiredToken ==
  [][(/\ RanCheck'
      /\ effects'[1] = "pollTick" \/ ~eventListenersAdded
      /\ ~HasToken(token) \/ (Decodable(token) /\ ~ExpiryInPast(token, now))) =>
       /\ SessionUntouched
       /\ refreshThrottle' = refreshThrottle
       /\ cooldowns' = cooldowns
       /\ reqs' = reqs]_vars

\* C24 case: the timer ticked after the session was terminated and found
\* no token.
C24_Witness ==
  /\ effects = <<"pollTick", "check.noToken">>
  /\ terminated
  /\ ~HasToken(token)
  /\ navs = <<>>

\* C26: a user event that reaches the handler while the gate is closed
\* issues no request, leaves storage and listeners alone, leaves the gate
\* closed and leaves the pending cooldown timers as they are.
C26_ClosedGateDropsActivity ==
  [][(RanActivity' /\ refreshThrottle) =>
       /\ effects' = <<"activity", "refresh.dropped">>
       /\ reqs' = reqs
       /\ sent' = <<>>
       /\ SessionUntouched
       /\ refreshThrottle'
       /\ cooldowns' = cooldowns]_vars

\* C26 case: a user event was dropped while the refresh request was still
\* in flight.
C26_Witness ==
  /\ RanActivity
  /\ Has(effects, "refresh.dropped")
  /\ InFlight("refresh") # {}
  /\ refreshThrottle

\* C27: at any instant checkTokenExpiry and refreshSessionOnActivity agree
\* on the stored decodable token: refresh refuses it as expired exactly
\* when the check terminates it.
C27_CheckAndRefreshAgree ==
  Decodable(token) => (RefreshExpired(token, now) <=> CheckExpired(token, now))

\* C28: eventListenersAdded is true exactly when the handler is subscribed
\* to all five events and false exactly when it is subscribed to none.
C28_FlagMatchesSubscriptions ==
  /\ eventListenersAdded => subscribed = Events
  /\ ~eventListenersAdded => subscribed = {}

\* C28 case: checkTokenExpiry has removed an undecodable token and left
\* the listeners registered: the flag is set and all five events are
\* subscribed.
C28_Witness ==
  /\ Has(effects, "check.undecodable")
  /\ ~HasToken(token)
  /\ eventListenersAdded
  /\ subscribed = Events

\* C29: when logout() has settled, logoutReason is absent from storage,
\* also when the answer was 401/403 and the interceptor had written
\* "session_expired" during the call.
C29_LogoutLeavesNoReason ==
  (resp.kind = "logout") => logoutReason = NoReason

\* C29 case: logout() was answered 401/403, the interceptor wrote the
\* reason, and the finally block cleared it.
C29_Witness ==
  /\ resp.kind = "logout"
  /\ resp.status \in {401, 403}
  /\ Has(effects, "setReason")
  /\ logoutReason = NoReason

\* C30: at most one refresh request is in flight, at most one cooldown
\* timer is pending, never both, and the gate is closed while a request
\* is in flight; so no timer can reopen the gate during an attempt.
C30_SingleRefreshAttempt ==
  /\ Cardinality(InFlight("refresh")) <= 1
  /\ Cardinality(cooldowns) <= 1
  /\ InFlight("refresh") # {} => (refreshThrottle /\ cooldowns = {})

\* C30 case: a later attempt is in flight after the cooldown timer of an
\* earlier attempt has fired; the gate is closed and no timer is pending.
C30_Witness ==
  /\ InFlight("refresh") # {}
  /\ doneAt # NoTime
  /\ now >= doneAt + Cooldown
  /\ refreshThrottle
  /\ cooldowns = {}

\* every pending cooldown timer is due within the time the model covers
TimersWithinHorizon == \A d \in cooldowns : d <= MaxTime

\* C25: the gate does not stay closed: while it is closed a refresh
\* request is in flight or a cooldown timer is pending (every path that
\* leaves the handler with the gate closed has one of the two), a request
\* in flight settles, and once the timer is pending the gate is reopened.
C25_GateEventuallyReopens ==
  /\ [](refreshThrottle => (InFlight("refresh") # {} \/ cooldowns # {}))
  /\ (refreshThrottle /\ InFlight("refresh") # {}) ~>
       (InFlight("refresh") = {})
  /\ (refreshThrottle /\ cooldowns # {} /\ TimersWithinHorizon) ~>
       ~refreshThrottle

\* C25 case: the cooldown timer that followed a failed refresh request
\* (the server issued no token in this run) has fired and reopened the
\* gate.
C25_Witness ==
  /\ effects = <<"cooldownTimer">>
  /\ doneAt # NoTime
  /\ issued = 0
  /\ ~refreshThrottle
  /\ cooldowns = {}

====
